---- MODULE Spec2Model ----
(***************************************************************************)
(* Model of src/main.py: a FastAPI service over three SQLite tables        *)
(* (users, animals, adoptions) with five handlers.  Handlers are sync      *)
(* `def` endpoints, which FastAPI runs on worker threads, so two requests  *)
(* interleave at their store accesses.  Each store access (a SELECT, or    *)
(* the flush+COMMIT of db.commit()) is one atomic step; SQLite serialises  *)
(* writers, and the session is created with autoflush=False, so every      *)
(* write of a request reaches the store inside db.commit().                *)
(***************************************************************************)
EXTENDS Integers, Sequences, FiniteSets, TLC

(* ------------------------------------------------------------------ *)
(* Bounds of the model                                                 *)
(* ------------------------------------------------------------------ *)
MaxUsers == 2
MaxAnimals == 2

Procs == {"t1", "t2"}

(* ------------------------------------------------------------------ *)
(* Program constants                                                   *)
(* ------------------------------------------------------------------ *)
MinNameLen == 3
PhoneDigits == 9
\* edad = Column(Integer) left NULL when the body gives no edad; SQLite
\* orders NULL before every integer, and ge=0 keeps real ages above it.
NoAge == -1

(* ------------------------------------------------------------------ *)
(* Inputs                                                              *)
(* ------------------------------------------------------------------ *)
Absent == [given |-> FALSE, value |-> 0]
Given(v) == [given |-> TRUE, value |-> v]

EmailA == <<"a", "@", "b", ".", "c", "o">>
EmailX == <<"x", "@", "y", ".", "z">>
EmailBad == <<"n", "o", "t", "-", "a", "n", "-", "e", "m", "a", "i", "l">>
\* the optional `tipo` query parameter: missing (None), empty, or a word
NoTipo == "None"
TipoParams == {NoTipo, "", "perro", "gato"}

UserBody(nombre, email, telefono) ==
    [nombre |-> nombre, email |-> email, telefono |-> telefono]
AnimalBody(nombre, edad, tipo) == [nombre |-> nombre, edad |-> edad, tipo |-> tipo]

\* request bodies of POST /users/: two well-formed ones, a two-letter name
\* with a stored email, and one malformed in the email or the phone
UserBodies ==
    { UserBody("Ana", EmailA, Given(123456789)),
      UserBody("Eva", EmailX, Absent),
      UserBody("ab", EmailA, Given(123456789)),
      UserBody("Ana", EmailBad, Given(123456789)),
      UserBody("Ana", EmailA, Given(12345)),
      UserBody("Eva", EmailX, Given(0 - 5)) }

\* request bodies of POST /animals/
AnimalBodies ==
    { AnimalBody("Rex", Given(2), "perro"),
      AnimalBody("Tom", Given(7), "perro"),
      AnimalBody("Luna", Given(7), "gato"),
      AnimalBody("ab", Absent, "perro"),
      AnimalBody("Tom", Given(0 - 3), "perro"),
      AnimalBody("Rex", Given(2), "bird") }

\* query parameters of the adoption endpoints
AdopterNames == {"Ana", "Zoe"}
DirectedNames == {"Rex", "Tom"}

(* ------------------------------------------------------------------ *)
(* Pydantic schemas                                                    *)
(* ------------------------------------------------------------------ *)
\* [A-Za-z0-9_] restricted to the characters the inputs use
WordChars == {"a", "b", "c", "e", "i", "l", "m", "n", "o", "t", "x", "y", "z"}
WordDotDash == WordChars \cup {".", "-"}

RECURSIVE StrLenOfInt(_)
\* len(str(value)) of a non-negative int
StrLenOfInt(n) == IF n < 10 THEN 1 ELSE 1 + StrLenOfInt(n \div 10)

\* re.match(r'^[\w\.-]+@[\w\.-]+\.\w+$', valor)
validar_email(valor) ==
    \E i \in 1..Len(valor), j \in 1..Len(valor) :
        /\ 1 < i /\ i + 1 < j /\ j < Len(valor)
        /\ valor[i] = "@"
        /\ valor[j] = "."
        /\ \A k \in 1..(i - 1) : valor[k] \in WordDotDash
        /\ \A k \in (i + 1)..(j - 1) : valor[k] \in WordDotDash
        /\ \A k \in (j + 1)..Len(valor) : valor[k] \in WordChars

\* if len(value) < 3: raise ValueError
NameLongEnough(value) == Len(value) >= MinNameLen

\* if len(str(value)) != 9: raise ValueError
NineDigits(value) == StrLenOfInt(value) = PhoneDigits

\* The decorated functions of class UsersSchema in the order the class body
\* defines them: the name each `def` binds and the field it validates.
UsersSchemaBody ==
    << [def |-> "lenght_name", field |-> "nombre"],
       [def |-> "lenght_name", field |-> "telefono"],
       [def |-> "validar_email", field |-> "email"] >>

AnimalSchemaBody ==
    << [def |-> "lenght_name_1", field |-> "nombre"],
       [def |-> "validar_tipo", field |-> "tipo"] >>

\* A class body is a namespace: a later `def` of the same name rebinds it,
\* and pydantic collects the validators from the finished namespace.
FieldValidators(body) ==
    { body[i].field : i \in { k \in 1..Len(body) :
          \A l \in (k + 1)..Len(body) : body[l].def # body[k].def } }

\* Field(None, ge=0): the default is not validated, a given value must be >= 0
GeZero(opt) == opt.given => opt.value >= 0

UsersSchema(user) ==
    /\ "nombre" \in FieldValidators(UsersSchemaBody) => NameLongEnough(user.nombre)
    /\ GeZero(user.telefono)
    /\ ("telefono" \in FieldValidators(UsersSchemaBody) /\ user.telefono.given)
          => NineDigits(user.telefono.value)
    /\ "email" \in FieldValidators(UsersSchemaBody) => validar_email(user.email)

\* if value not in ["perro", "gato"]: raise ValueError
validar_tipo(value) == value \in {"perro", "gato"}

AnimalSchema(animal) ==
    /\ "nombre" \in FieldValidators(AnimalSchemaBody) => NameLongEnough(animal.nombre)
    /\ GeZero(animal.edad)
    /\ "tipo" \in FieldValidators(AnimalSchemaBody) => validar_tipo(animal.tipo)

(* ------------------------------------------------------------------ *)
(* Store: tables, queries and constraints                              *)
(* ------------------------------------------------------------------ *)
VARIABLES users, animals, adoptions, req, granted

store == <<users, animals, adoptions>>
vars == <<users, animals, adoptions, req, granted>>

Rows(table) == { table[i] : i \in 1..Len(table) }

\* the mapped classes; fecha = date.today() is the same for every row and is
\* left out
UserDB(id, nombre, email) == [id |-> id, nombre |-> nombre, email |-> email]
AnimalDB(id, nombre, edad, tipo) ==
    [id |-> id, nombre |-> nombre, edad |-> edad, tipo |-> tipo, adoptado |-> FALSE]
AdoptionDB(animal_id, user_id) == [animal_id |-> animal_id, user_id |-> user_id]

\* `if tipo:` -- None and the empty string are falsy
Truthy(tipo) == tipo # NoTipo /\ tipo # ""

\* a duplicate lookup that never finds the stored row
MutUsersByEmailNone(us, email) == {}

\* db.query(UserDB).filter(UserDB.email == user.email)
UsersByEmail(us, email) == { u \in Rows(us) : u.email = email }

\* db.query(UserDB).filter(UserDB.nombre == user_name)
UsersByName(us, nombre) == { u \in Rows(us) : u.nombre = nombre }

\* db.query(AnimalDB).filter(AnimalDB.nombre == animal_name)
AnimalsByName(an, nombre) == { a \in Rows(an) : a.nombre = nombre }

\* the listing filter without its adoptado clause
MutAllAnimals(an, tipo) == { a \in Rows(an) : Truthy(tipo) => a.tipo = tipo }

\* .filter(AnimalDB.adoptado == False[, AnimalDB.tipo == tipo])
AvailableAnimals(an, tipo) ==
    { a \in Rows(an) : /\ a.adoptado = FALSE
                       /\ Truthy(tipo) => a.tipo = tipo }

\* the selection without its order_by
MutAnyCandidate(cands) == cands

\* .order_by(AnimalDB.edad.desc()).first(): a row no other row precedes;
\* the order among equal ages is the engine's
OldestFirst(cands) == { a \in cands : \A b \in cands : b.edad <= a.edad }

\* the availability check without its adoptado clause
MutAvailableIgnoresFlag(an, animal_id) == { a \in Rows(an) : a.id = animal_id }

\* db.query(AnimalDB).filter(AnimalDB.id == animal_id, AnimalDB.adoptado == False)
AvailableById(an, animal_id) ==
    { a \in Rows(an) : a.id = animal_id /\ a.adoptado = FALSE }

\* email = Column(String, unique=True)
EmailUnique(us, email) == \A u \in Rows(us) : u.email # email

\* nombre = Column(String, unique=True)
NombreUnique(an, nombre) == \A a \in Rows(an) : a.nombre # nombre

\* the adoptions table without a key on animal_id
MutNoPrimaryKey(ad, animal_id) == TRUE

\* animal_id = Column(Integer, ForeignKey("animals.id"), primary_key=True)
PrimaryKeyFree(ad, animal_id) == \A r \in Rows(ad) : r.animal_id # animal_id

\* db.add(user_db); db.commit(): INSERT with the next rowid, or IntegrityError
InsertUser(us, nombre, email) ==
    IF EmailUnique(us, email)
    THEN [ok |-> TRUE,
          users |-> Append(us, UserDB(Len(us) + 1, nombre, email))]
    ELSE [ok |-> FALSE, users |-> us]

\* db.add(animal_db); db.commit()
InsertAnimal(an, nombre, edad, tipo) ==
    IF NombreUnique(an, nombre)
    THEN [ok |-> TRUE,
          animals |-> Append(an, AnimalDB(Len(an) + 1, nombre, edad, tipo))]
    ELSE [ok |-> FALSE, animals |-> an]

\* the handler without its `animal_db.adoptado = True`
MutNeverMarked(an, animal_id, loaded) == an

\* animal_db.adoptado = True: the unit of work emits the UPDATE only when the
\* attribute the session loaded differs from the value assigned
MarkAdopted(an, animal_id, loaded) ==
    IF loaded = FALSE THEN [an EXCEPT ![animal_id].adoptado = TRUE] ELSE an

\* both writes committed statement by statement and the key checked afterwards
MutFlushThenCheck(an, ad, animal_id, user_id, loaded) ==
    [ok |-> PrimaryKeyFree(ad, animal_id),
     animals |-> MarkAdopted(an, animal_id, loaded),
     adoptions |-> Append(ad, AdoptionDB(animal_id, user_id))]

\* db.commit() of an adoption: one transaction holding the UPDATE of the animal
\* and the INSERT of the adoption; a failed INSERT rolls the transaction back
FlushAdoption(an, ad, animal_id, user_id, loaded) ==
    IF PrimaryKeyFree(ad, animal_id)
    THEN [ok |-> TRUE,
          animals |-> MarkAdopted(an, animal_id, loaded),
          adoptions |-> Append(ad, AdoptionDB(animal_id, user_id))]
    ELSE [ok |-> FALSE, animals |-> an, adoptions |-> ad]

(* ------------------------------------------------------------------ *)
(* Requests                                                            *)
(* ------------------------------------------------------------------ *)
Ok == "200"
Unprocessable == "422"
UserDuplicate == "400 El usuario ya esta registrado"
AnimalDuplicate == "400 El animal ya esta registrado"
UserNotFound == "400 El usuario no esta registrado"
AnimalNotFound == "400 El animal no esta registrado"
NotAvailable == "400 El animal no esta disponible para adopcion"
NoAnimals == "400 No hay animales disponibles para adopcion"
IntegrityError == "500 IntegrityError"

\* A worker thread with no request.  `pre` is a history field: whether the row
\* the request names was already taken (email stored, name stored, animal
\* adopted) when the request arrived.
IdleReq ==
    [op |-> "idle", pc |-> "idle", nombre |-> "", email |-> <<>>, animal |-> "",
     edad |-> NoAge, tipo |-> NoTipo, user_id |-> 0, animal_id |-> 0,
     loaded |-> FALSE, session |-> "none", outcome |-> "none", animales |-> {},
     pre |-> FALSE]

Init ==
    /\ users = <<>>
    /\ animals = <<>>
    /\ adoptions = <<>>
    /\ req = [p \in Procs |-> IdleReq]
    /\ granted = <<>>

Pending(pc) == Cardinality({ q \in Procs : req[q].pc = pc })

\* raise HTTPException / return, after db.close() where the code calls it
\* (the locals no response depends on are dropped with the frame)
Finish(r, outcome, session) ==
    [r EXCEPT !.pc = "done", !.outcome = outcome, !.session = session,
              !.user_id = 0, !.loaded = FALSE, !.edad = NoAge,
              !.nombre = IF r.op = "create_user" THEN r.nombre ELSE "",
              !.tipo = IF r.op = "get_available" THEN r.tipo ELSE NoTipo]

\* POST /users/ up to the lookup of line 151
CreateUser(p, user) ==
    /\ req[p].op = "idle"
    /\ LET r == [IdleReq EXCEPT !.op = "create_user", !.nombre = user.nombre,
                                !.email = user.email,
                                !.pre = (\E i \in 1..Len(users) :
                                            users[i].email = user.email)]
       IN  IF ~UsersSchema(user)
           THEN req' = [req EXCEPT ![p] = Finish(r, Unprocessable, "none")]
           ELSE IF UsersByEmail(users, user.email) # {}
           THEN req' = [req EXCEPT ![p] = Finish(r, UserDuplicate, "closed")]
           ELSE /\ Len(users) + Pending("cu_commit") < MaxUsers
                /\ req' = [req EXCEPT ![p] = [r EXCEPT !.pc = "cu_commit",
                                                        !.session = "active"]]
    /\ UNCHANGED <<store, granted>>

\* lines 156-160: add, commit, refresh, close
CommitUser(p) ==
    /\ req[p].pc = "cu_commit"
    /\ LET res == InsertUser(users, req[p].nombre, req[p].email)
       IN  /\ users' = res.users
           /\ req' = [req EXCEPT ![p] =
                        IF res.ok THEN Finish(@, Ok, "closed")
                        ELSE Finish(@, IntegrityError, "active")]
    /\ UNCHANGED <<animals, adoptions, granted>>

\* POST /animals/ up to the lookup of line 177
CreateAnimal(p, animal) ==
    /\ req[p].op = "idle"
    /\ LET edad == IF animal.edad.given THEN animal.edad.value ELSE NoAge
           r == [IdleReq EXCEPT !.op = "create_animal", !.animal = animal.nombre,
                                !.edad = edad, !.tipo = animal.tipo,
                                !.pre = (\E i \in 1..Len(animals) :
                                            animals[i].nombre = animal.nombre)]
       IN  IF ~AnimalSchema(animal)
           THEN req' = [req EXCEPT ![p] = Finish(r, Unprocessable, "none")]
           ELSE IF AnimalsByName(animals, animal.nombre) # {}
           THEN req' = [req EXCEPT ![p] = Finish(r, AnimalDuplicate, "closed")]
           ELSE /\ Len(animals) + Pending("ca_commit") < MaxAnimals
                /\ req' = [req EXCEPT ![p] = [r EXCEPT !.pc = "ca_commit",
                                                        !.session = "active"]]
    /\ UNCHANGED <<store, granted>>

\* lines 182-186
CommitAnimal(p) ==
    /\ req[p].pc = "ca_commit"
    /\ LET res == InsertAnimal(animals, req[p].animal, req[p].edad, req[p].tipo)
       IN  /\ animals' = res.animals
           /\ req' = [req EXCEPT ![p] =
                        IF res.ok THEN Finish(@, Ok, "closed")
                        ELSE Finish(@, IntegrityError, "active")]
    /\ UNCHANGED <<users, adoptions, granted>>

\* GET /disponibles
GetAvailable(p, tipo) ==
    /\ req[p].op = "idle"
    /\ LET r == [IdleReq EXCEPT !.op = "get_available", !.tipo = tipo,
                   !.animales = { [nombre |-> a.nombre, edad |-> a.edad, tipo |-> a.tipo] :
                                    a \in AvailableAnimals(animals, tipo) }]
       IN  req' = [req EXCEPT ![p] = Finish(r, Ok, "closed")]
    /\ UNCHANGED <<store, granted>>

\* POST /adopcion/random/ up to the user lookup of line 220
AdoptRandom(p, user_name, tipo) ==
    /\ req[p].op = "idle"
    /\ LET r == [IdleReq EXCEPT !.op = "adopt_random", !.nombre = user_name,
                                !.tipo = tipo]
       IN  IF UsersByName(users, user_name) = {}
           THEN req' = [req EXCEPT ![p] = Finish(r, UserNotFound, "closed")]
           ELSE \E u \in UsersByName(users, user_name) :
                    req' = [req EXCEPT ![p] = [r EXCEPT !.pc = "ra_select",
                                                        !.user_id = u.id,
                                                        !.session = "active"]]
    /\ UNCHANGED <<store, granted>>

\* lines 225-233: the oldest available animal, held by the session as loaded
RandomSelect(p) ==
    /\ req[p].pc = "ra_select"
    /\ LET cands == OldestFirst(AvailableAnimals(animals, req[p].tipo))
       IN  IF cands = {}
           THEN req' = [req EXCEPT ![p] = Finish(@, NoAnimals, "closed")]
           ELSE \E a \in cands :
                    req' = [req EXCEPT ![p].pc = "commit", ![p].animal_id = a.id,
                                       ![p].animal = a.nombre,
                                       ![p].loaded = a.adoptado]
    /\ UNCHANGED <<store, granted>>

\* POST /adopcion/ up to the user lookup of line 259
AdoptDirected(p, user_name, animal_name) ==
    /\ req[p].op = "idle"
    /\ LET r == [IdleReq EXCEPT !.op = "adopt_directed", !.nombre = user_name,
                   !.animal = animal_name,
                   !.pre = (\E i \in 1..Len(animals) :
                              animals[i].nombre = animal_name /\ animals[i].adoptado)]
       IN  IF UsersByName(users, user_name) = {}
           THEN req' = [req EXCEPT ![p] = Finish(r, UserNotFound, "closed")]
           ELSE \E u \in UsersByName(users, user_name) :
                    req' = [req EXCEPT ![p] = [r EXCEPT !.pc = "ad_animal",
                                                        !.user_id = u.id,
                                                        !.session = "active"]]
    /\ UNCHANGED <<store, granted>>

\* lines 265-269
DirectedAnimal(p) ==
    /\ req[p].pc = "ad_animal"
    /\ IF AnimalsByName(animals, req[p].animal) = {}
       THEN req' = [req EXCEPT ![p] = Finish(@, AnimalNotFound, "closed")]
       ELSE \E a \in AnimalsByName(animals, req[p].animal) :
                req' = [req EXCEPT ![p].pc = "ad_available", ![p].animal_id = a.id]
    /\ UNCHANGED <<store, granted>>

\* lines 270-274: the availability check, then db.close() on either branch
DirectedAvailable(p) ==
    /\ req[p].pc = "ad_available"
    /\ IF AvailableById(animals, req[p].animal_id) = {}
       THEN req' = [req EXCEPT ![p] = Finish(@, NotAvailable, "closed")]
       ELSE req' = [req EXCEPT ![p].pc = "ad_reload", ![p].session = "closed"]
    /\ UNCHANGED <<store, granted>>

\* lines 277-282: db.add and the query reopen the closed session, whose
\* identity map is empty, so the animal is loaded as the store has it now
DirectedReload(p) ==
    /\ req[p].pc = "ad_reload"
    /\ req' = [req EXCEPT ![p].pc = "commit", ![p].session = "active",
                          ![p].loaded = animals[req[p].animal_id].adoptado]
    /\ UNCHANGED <<store, granted>>

\* db.commit() of either adoption handler and its return; no db.close()
\* follows.  (The random handler's query of line 240 returns the object the
\* session already holds, so it is folded into this step.)
CommitAdoption(p) ==
    /\ req[p].pc = "commit"
    /\ LET res == FlushAdoption(animals, adoptions, req[p].animal_id,
                                req[p].user_id, req[p].loaded)
       IN  /\ animals' = res.animals
           /\ adoptions' = res.adoptions
           /\ req' = [req EXCEPT ![p] =
                        IF res.ok THEN Finish(@, Ok, "active")
                        ELSE Finish(@, IntegrityError, "active")]
           /\ granted' = IF res.ok THEN Append(granted, req[p].animal_id) ELSE granted
    /\ UNCHANGED users

\* the response has been sent; the worker thread takes the next request
Return(p) ==
    /\ req[p].pc = "done"
    /\ req' = [req EXCEPT ![p] = IdleReq]
    /\ UNCHANGED <<store, granted>>

Next ==
    \E p \in Procs :
        \/ \E user \in UserBodies : CreateUser(p, user)
        \/ CommitUser(p)
        \/ \E animal \in AnimalBodies : CreateAnimal(p, animal)
        \/ CommitAnimal(p)
        \/ \E tipo \in TipoParams : GetAvailable(p, tipo)
        \/ \E user_name \in AdopterNames, tipo \in TipoParams : AdoptRandom(p, user_name, tipo)
        \/ RandomSelect(p)
        \/ \E user_name \in AdopterNames, animal_name \in DirectedNames :
               AdoptDirected(p, user_name, animal_name)
        \/ DirectedAnimal(p)
        \/ DirectedAvailable(p)
        \/ DirectedReload(p)
        \/ CommitAdoption(p)
        \/ Return(p)

Spec == Init /\ [][Next]_vars

(* ------------------------------------------------------------------ *)
(* Properties                                                          *)
(* ------------------------------------------------------------------ *)
Adoptions == {"adopt_random", "adopt_directed"}
Registrations == {"create_user", "create_animal"}
RowsFor(animal_id) == { k \in 1..Len(adoptions) : adoptions[k].animal_id = animal_id }
AdoptedIds(an) == { i \in 1..Len(an) : an[i].adoptado }
Matches(a, tipo) == Truthy(tipo) => a.tipo = tipo

\* C1: of all the adoption requests that name or select the same animal,
\* whatever their kind and interleaving, at most one returns success.
C1_AtMostOneSuccess ==
    \A i, j \in 1..Len(granted) : granted[i] = granted[j] => i = j

\* a random and a directed adoption raced for one animal: the random one
\* returned success, the directed one had passed its check and then failed
C1_Witness ==
    \E p, q \in Procs :
        /\ req[p].op = "adopt_random" /\ req[p].outcome = Ok
        /\ req[q].op = "adopt_directed" /\ req[q].outcome = IntegrityError
        /\ req[p].animal_id = req[q].animal_id

\* C2: when two adoption requests target the same animal and one of them
\* succeeds, the other ends with the 400 'animal not available' response.
C2_LoserGetsConflict ==
    \A p, q \in Procs :
        ( /\ p # q
          /\ req[p].op \in Adoptions /\ req[q].op \in Adoptions
          /\ req[p].pc = "done" /\ req[q].pc = "done"
          /\ req[p].animal_id # 0 /\ req[p].animal_id = req[q].animal_id
          /\ req[p].outcome = Ok )
        => req[q].outcome = NotAvailable

\* C3: in every committed state an animal is adopted if and only if exactly
\* one adoption row is keyed by its id, and every adoption row names an
\* adopted animal.
C3_AdoptedIffOneRow ==
    /\ \A i \in 1..Len(animals) :
           animals[i].adoptado <=> Cardinality(RowsFor(animals[i].id)) = 1
    /\ \A k \in 1..Len(adoptions) :
           /\ adoptions[k].animal_id \in 1..Len(animals)
           /\ animals[adoptions[k].animal_id].adoptado
           /\ Cardinality(RowsFor(adoptions[k].animal_id)) = 1

\* one animal adopted, another still available, and a second commit for the
\* adopted one has been refused
C3_Witness ==
    /\ \E i, j \in 1..Len(animals) : animals[i].adoptado /\ ~animals[j].adoptado
    /\ \E p \in Procs : req[p].op \in Adoptions /\ req[p].outcome = IntegrityError
                        /\ animals[req[p].animal_id].adoptado

\* C4 as stated: a directed adoption of an animal that was already adopted
\* when the request arrived fails with 'animal not available', and the
\* animal keeps exactly one adoption row.
C4_AdoptedAlwaysConflict ==
    \A p \in Procs :
        (req[p].op = "adopt_directed" /\ req[p].pc = "done" /\ req[p].pre)
        => /\ req[p].outcome = NotAvailable
           /\ Cardinality(RowsFor(req[p].animal_id)) = 1

\* C4 amended: a directed adoption, under a registered user name, of an
\* animal that was already adopted when the request arrived fails with
\* 'animal not available' (under an unregistered user name it fails with
\* 'user not registered'); it never reaches its commit, and the animal keeps
\* exactly one adoption row.
C4_AdoptedConflictForRegisteredUser ==
    \A p \in Procs :
        (req[p].op = "adopt_directed" /\ req[p].pre)
        => /\ req[p].pc \in {"ad_animal", "ad_available", "done"}
           /\ req[p].pc = "done" => req[p].outcome \in {NotAvailable, UserNotFound}
           /\ \A a \in AnimalsByName(animals, req[p].animal) :
                  Cardinality(RowsFor(a.id)) = 1

\* a second directed adoption of an adopted animal has been refused
C4_Witness ==
    \E p \in Procs :
        /\ req[p].op = "adopt_directed" /\ req[p].pre
        /\ req[p].outcome = NotAvailable
        /\ Cardinality(RowsFor(req[p].animal_id)) = 1

\* C5: a valid registration whose email was already stored when the request
\* arrived fails with 'user already registered' and the table keeps exactly
\* one row for that email; no two stored users share an email.
C5_DuplicateEmailRejected ==
    /\ \A i, j \in 1..Len(users) : users[i].email = users[j].email => i = j
    /\ \A p \in Procs :
           (req[p].op = "create_user" /\ req[p].pre /\ req[p].outcome # Unprocessable)
           => /\ req[p].pc = "done"
              /\ req[p].outcome = UserDuplicate
              /\ Cardinality({ i \in 1..Len(users) :
                                  users[i].email = req[p].email }) = 1

\* a registration with a stored email has been refused while two users are stored
C5_Witness ==
    /\ Len(users) = 2
    /\ \E p \in Procs : req[p].op = "create_user" /\ req[p].pre
                        /\ req[p].outcome = UserDuplicate

\* C6: the animal a random adoption selects is available, has the requested
\* kind when one is given, and no available animal matching the filter is
\* older; the animal a successful random adoption adopts is the selected one
\* and was not adopted before the commit.
C6_RandomPicksOldestAvailable ==
    [][\A p \in Procs :
          /\ (req[p].pc = "ra_select" /\ req'[p].pc = "commit")
             => LET a == animals[req'[p].animal_id]
                IN  /\ a.adoptado = FALSE
                    /\ Matches(a, req[p].tipo)
                    /\ \A b \in Rows(animals) :
                           (b.adoptado = FALSE /\ Matches(b, req[p].tipo))
                           => b.edad <= a.edad
          /\ (req[p].op = "adopt_random" /\ req'[p].outcome = Ok /\ req[p].outcome # Ok)
             => /\ animals[req[p].animal_id].adoptado = FALSE
                /\ AdoptedIds(animals') = AdoptedIds(animals) \cup {req[p].animal_id}
                /\ Matches(animals[req[p].animal_id], req[p].tipo)
      ]_vars

\* a random adoption succeeded on an animal while a younger animal of the
\* same kind stays available and an animal at least as old is adopted
C6_Witness ==
    \E p \in Procs :
        /\ req[p].op = "adopt_random" /\ req[p].outcome = Ok
        /\ \E b \in Rows(animals) :
               /\ b.adoptado = FALSE
               /\ b.tipo = animals[req[p].animal_id].tipo
               /\ b.edad < animals[req[p].animal_id].edad

\* C7: an adopted animal stays adopted in every later state, and a listing
\* taken while an animal is adopted does not contain it, with or without a
\* kind filter.
C7_AdoptedStaysOutOfListings ==
    [][/\ \A i \in 1..Len(animals) :
              animals[i].adoptado
              => /\ i <= Len(animals')
                 /\ animals'[i].adoptado
                 /\ animals'[i].nombre = animals[i].nombre
       /\ \A p \in Procs :
              (req[p].op = "idle" /\ req'[p].op = "get_available")
              => \A a \in Rows(animals) :
                     a.adoptado => \A r \in req'[p].animales : r.nombre # a.nombre
      ]_vars

\* a listing that the adopted animal's kind matches returned other animals only
C7_Witness ==
    \E p \in Procs :
        /\ req[p].op = "get_available" /\ req[p].pc = "done"
        /\ req[p].animales # {}
        /\ \E a \in Rows(animals) :
               /\ a.adoptado /\ Matches(a, req[p].tipo)
               /\ \A r \in req[p].animales : r.nombre # a.nombre

\* C8: a registration of a user or of an animal whose name has fewer than 3
\* characters ends with the validation error, and no row with such a name
\* is stored.
C8_ShortNameRejected ==
    /\ \A p \in Procs :
           \/ req[p].op = "create_user" /\ Len(req[p].nombre) < MinNameLen
           \/ req[p].op = "create_animal" /\ Len(req[p].animal) < MinNameLen
           => req[p].pc = "done" /\ req[p].outcome = Unprocessable
    /\ \A u \in Rows(users) : Len(u.nombre) >= MinNameLen
    /\ \A a \in Rows(animals) : Len(a.nombre) >= MinNameLen

\* C9: a step of a request that does not end it in success leaves the three
\* tables unchanged, and an adoption row is added exactly when an adopted
\* flag is flipped.
C9_FailureLeavesStore ==
    [][/\ \A p \in Procs :
              (req'[p] # req[p] /\ req'[p].outcome # Ok) => store' = store
       /\ (adoptions' # adoptions) <=> (AdoptedIds(animals') # AdoptedIds(animals))
      ]_vars

\* a directed adoption passed its check, lost the race and was refused at its
\* commit, and the animal has the one row of the winner
C9_Witness ==
    \E p \in Procs :
        /\ req[p].op = "adopt_directed" /\ req[p].outcome = IntegrityError
        /\ Cardinality(RowsFor(req[p].animal_id)) = 1
        /\ Len(adoptions) = 1

\* C10: a request that has returned, with success or with an error, has no
\* open session.
C10_SessionClosedOnReturn ==
    \A p \in Procs : req[p].pc = "done" => req[p].session # "active"

====
